---------------------------- MODULE Spec2Model ----------------------------
(***************************************************************************)
(* A model of rest-api-client: the modular tree (make.ts, client.ts and    *)
(* the five maker modules) and the legacy monolithic RestApiClient.ts.     *)
(*                                                                         *)
(* JavaScript values are records with a "kind" field; strings that the     *)
(* code inspects (URLs) are sequences of one-character strings; a header   *)
(* set is a function from lower-cased header names to values, as the       *)
(* transport library keeps it.                                             *)
(***************************************************************************)
EXTENDS Integers, Sequences, FiniteSets, TLC

VARIABLES
    impl,      \* "modular" (make.ts) or "legacy" (RestApiClient.ts)
    client,    \* the Client's fields (the object's own keys and their values)
    spec,      \* the author-facing specification handed to a builder
    route,     \* the Route the callable function closes over
    config,    \* the Config service; layerOn says whether layer wraps the transport
    layerOn,
    params,    \* the call-time argument of the callable function
    pc,        \* position of the invocation
    url,       \* locals of the returned Effect.gen
    headers,
    body,
    sent,      \* the request as the underlying transport saw it
    reply,     \* what the underlying transport answered
    response,
    request,   \* the request make assembled
    outcome,   \* the exit of the deferred computation
    log,       \* every maker function / codec / transport call, in order
    clients,   \* several Client objects side by side: their fields
    callables, \* the callable route functions built from them: the Route each
               \* closes over, and the client, specification and method it
               \* was built from
    runs       \* several invocations in progress at once: the locals of each

vars == <<impl, client, spec, route, config, layerOn, params, pc, url, headers,
          body, request, sent, reply, response, outcome, log, clients, callables,
          runs>>

-----------------------------------------------------------------------------
(* Bounds *)

\* Typed values and JSON documents carry a payload 0..MaxValue.
MaxValue == 1

-----------------------------------------------------------------------------
(* JavaScript values *)

Undefined == [kind |-> "undefined"]
Str(s) == [kind |-> "string", s |-> s]
Fun(name) == [kind |-> "function", fn |-> name]
Codec(name) == [kind |-> "schema", name |-> name]
\* class Todo extends Schema.Class<Todo>("Todo")({...}): a codec that is
\* also a constructor function
SchemaClass(name) == [kind |-> "class", name |-> name]
HeadersInstance(h) == [kind |-> "headers", h |-> h]

Bool(b) == [kind |-> "boolean", b |-> b]

\* `x ? ... : ...` and `!x` on a maker, an optional field or a flag
Truthy(v) == v.kind # "undefined" /\ (v.kind = "boolean" => v.b)

\* `"k" in obj` on an object literal / class instance kept as a function
HasKey(obj, k) == k \in DOMAIN obj

\* { ...a, ...b }
Spread(a, b) ==
    [k \in DOMAIN a \cup DOMAIN b |-> IF k \in DOMAIN b THEN b[k] ELSE a[k]]

\* obj.k, undefined when the key is missing
Field(obj, k) == IF k \in DOMAIN obj THEN obj[k] ELSE Undefined

-----------------------------------------------------------------------------
(* Strings *)

startsWith(s, c) == Len(s) > 0 /\ s[1] = c

RelUrl == <<"/", "t">>
AbsUrl == <<"h", ":", "/", "x">>
BaseUrl == <<"h", ":", "b", "/">>

-----------------------------------------------------------------------------
(* Header sets (@effect/platform Headers): keys are stored lower-cased *)

toLowerCase(k) ==
    CASE k = "Content-Type" -> "content-type"
      [] k = "Authorization" -> "authorization"
      [] k = "X-Api" -> "x-api"
      [] OTHER -> k

HeadersEmpty == HeadersInstance([k \in {} |-> ""])

\* Headers.fromInput(record)
HeadersFromInput(input) ==
    HeadersInstance(
        [k \in {toLowerCase(n) : n \in DOMAIN input} |->
            LET n == CHOOSE n \in DOMAIN input : toLowerCase(n) = k IN input[n]])

\* The own entries of a value used as a header set: a function object that
\* ends up where a header set is expected has none
HeadersEntries(v) == IF v.kind = "headers" THEN v.h ELSE [k \in {} |-> ""]

\* Option.getOrUndefined(Headers.get(key)(h)); a missing header is undefined
HeadersGet(key, v) ==
    IF toLowerCase(key) \in DOMAIN HeadersEntries(v)
    THEN Str(HeadersEntries(v)[toLowerCase(key)])
    ELSE Undefined

\* Headers.set(key, value)(h): a copy of the own entries with the key set
HeadersSet(key, value, v) ==
    HeadersInstance(
        [k \in DOMAIN HeadersEntries(v) \cup {toLowerCase(key)} |->
            IF k = toLowerCase(key) THEN value ELSE HeadersEntries(v)[k]])

\* `!contentType` on string | undefined: undefined and "" are falsy
Falsy(v) == v.kind = "undefined" \/ (v.kind = "string" /\ v.s = "")


-----------------------------------------------------------------------------
(* Deferred computations (Effect) as their exits, with the calls they make *)

Succeed(v, calls) == [exit |-> "success", value |-> v, calls |-> calls]
FailWith(e, calls) == [exit |-> "failure", value |-> e, calls |-> calls]
DieWith(d, calls) == [exit |-> "die", value |-> d, calls |-> calls]

\* Either, the value Schema.encode / Schema.decodeUnknown return for a
\* synchronous codec; it is itself an Effect, so yield* runs it
Right(v) == [kind |-> "Either", tag |-> "Right", v |-> v]
Left(e) == [kind |-> "Either", tag |-> "Left", v |-> e]

\* yield* either
RunEither(e, calls) ==
    IF e.tag = "Right" THEN Succeed(e.v, calls) ELSE FailWith(e.v, calls)

-----------------------------------------------------------------------------
(* Codecs (effect Schema): typed values on one side, JSON on the other *)

Typed(t, n) == [kind |-> "typed", type |-> t, n |-> n]
Json(shape, n) == [kind |-> "json", shape |-> shape, n |-> n]
ParseError(name) == [kind |-> "ParseError", schema |-> name]

\* Schema.encode(schema)(value)
SchemaEncode(schema, value) ==
    IF value.kind = "typed" /\ value.type = schema.name
    THEN Right(Json(schema.name, value.n))
    ELSE Left(ParseError(schema.name))

\* Schema.decodeUnknown(schema)(json)
SchemaDecodeUnknown(schema, json) ==
    IF json.kind = "json" /\ json.shape = schema.name
    THEN Right(Typed(schema.name, json.n))
    ELSE Left(ParseError(schema.name))

\* the size in bytes of a serialised value
byteLength(x) ==
    IF x.kind = "Either"
    THEN 6 + (IF x.v.kind = "json" THEN 2 + x.v.n ELSE 3)
    ELSE 2 + x.n

\* A request-body payload (HttpBody): the bytes with their content type and
\* length
HttpBody(contentType, data) ==
    [kind |-> "HttpBody", contentType |-> contentType,
     contentLength |-> byteLength(data), data |-> data]

\* HttpBody.json(x): serialises the JavaScript value it is handed,
\* whatever that value is, and cannot fail on the values used here
HttpBodyJson(x) == Right(HttpBody("application/json", x))

\* response.json: the lazy JSON reader of a response
ResponseError(reason) == [kind |-> "ResponseError", reason |-> reason]
Unreadable == [kind |-> "text", s |-> "not json"]
ResponseJson(res) ==
    IF res.body.kind = "json" THEN Right(res.body) ELSE Left(ResponseError("Decode"))

-----------------------------------------------------------------------------
(* The author's custom functions *)

Arg(name, v) == [kind |-> "arg", name |-> name, v |-> v]

\* todoUrl is (params: { id }) => `/t/${params.id}`: reading .id of
\* undefined throws; listUrl is () => "/l" and does not look at its argument
UrlFnApply(fn, arg) ==
    IF fn.fn = "listUrl" THEN Succeed(<<"/", "l">>, <<"Url/Fn">>)
    ELSE IF arg.kind = "undefined"
    THEN DieWith([kind |-> "TypeError"], <<"Url/Fn">>)
    ELSE Succeed(<<"/", "t", "/">> \o arg.v, <<"Url/Fn">>)

\* (params) => Effect<Headers>: builds a header set or fails
HeadersFnApply(fn, arg) ==
    IF arg.name = "bad"
    THEN FailWith([kind |-> "HeaderError"], <<"Headers/Fn">>)
    ELSE Succeed(HeadersFromInput([n \in {arg.name} |-> arg.v]), <<"Headers/Fn">>)

\* (params) => Effect<HttpBody>: a text payload, or a failure
InputFnApply(fn, arg) ==
    IF arg.kind = "typed" /\ arg.type = "Todo"
    THEN Succeed(HttpBody("text/plain", arg), <<"Input/Fn">>)
    ELSE FailWith([kind |-> "BodyError"], <<"Input/Fn">>)

\* (res) => Effect<...>: pairs the decoded Todo with the status
OutputFnApply(fn, res) ==
    IF res.body.kind = "json" /\ res.body.shape = "Todo"
    THEN Succeed([kind |-> "WithStatus", n |-> res.body.n, status |-> res.status],
                 <<"Output/Fn">>)
    ELSE FailWith([kind |-> "OutputError"], <<"Output/Fn">>)

\* (res) => error value, a plain synchronous function
ErrorFnApply(fn, res) == [kind |-> "StatusError", status |-> res.status]

-----------------------------------------------------------------------------
(* Call-time parameters: undefined (no argument) or an object *)

Params(f) == [kind |-> "object", f |-> f]

\* params && "k" in params
HasParam(p, k) == Truthy(p) /\ HasKey(p.f, k)

-----------------------------------------------------------------------------
(* make.ts: the request execution engine of the modular tree *)

\* the flatMap of getHeaders: Content-Type auto-injection
injectContentType(r, h) ==
    IF /\ Falsy(HeadersGet("Content-Type", h))
       /\ Truthy(r.body)
       /\ r.body.kind \in {"@RestApiClient/Input/Schema", "@RestApiClient/Input/Value"}
    THEN HeadersSet("Content-Type", "application/json", h)
    ELSE h

\* getHeaders with the short-circuit lost: the custom function is called
\* although the call has no headers field
getHeaders_callsFn(r, p) ==
    LET obtained ==
            IF ~Truthy(r.headers) THEN Succeed(HeadersEmpty, <<>>)
            ELSE IF r.headers.kind = "@RestApiClient/Headers/Value"
                 THEN Succeed(r.headers.headers, <<>>)
            ELSE IF HasParam(p, "headers")
                 THEN HeadersFnApply(r.headers.fn, p.f["headers"])
            ELSE Succeed(HeadersEmpty, <<"Headers/Fn">>)
    IN  IF obtained.exit = "success"
        THEN Succeed(injectContentType(r, obtained.value), obtained.calls)
        ELSE obtained

getHeaders(r, p) ==
    LET obtained ==
            IF ~Truthy(r.headers) THEN Succeed(HeadersEmpty, <<>>)
            ELSE IF r.headers.kind = "@RestApiClient/Headers/Value"
                 THEN Succeed(r.headers.headers, <<>>)
            ELSE IF HasParam(p, "headers")
                 THEN HeadersFnApply(r.headers.fn, p.f["headers"])
            ELSE Succeed(HeadersEmpty, <<>>)
    IN  IF obtained.exit = "success"
        THEN Succeed(injectContentType(r, obtained.value), obtained.calls)
        ELSE obtained

\* Schema.encode(schema)(body).pipe(HttpBody.json): pipe applies
\* HttpBody.json to the value on its left, which is the Either that
\* Schema.encode returned, not the encoded JSON inside it
parseBody(schema, b) ==
    RunEither(HttpBodyJson(SchemaEncode(schema, b)), <<"Schema.encode", "HttpBody.json">>)

getBody(r, p) ==
    IF Truthy(r.body) /\ r.body.kind = "@RestApiClient/Input/Value"
    THEN parseBody(r.body.schema, r.body.value)
    ELSE IF ~Truthy(r.body) \/ ~HasParam(p, "body")
    THEN Succeed(Undefined, <<>>)
    ELSE IF r.body.kind = "@RestApiClient/Input/Schema"
    THEN parseBody(r.body.schema, p.f["body"])
    ELSE InputFnApply(r.body.fn, p.f["body"])

\* parseResponse falling back to the raw JSON when the codec rejects it
parseResponse_lenient(schema, res) ==
    LET json == ResponseJson(res)
    IN  IF json.tag = "Left"
        THEN FailWith(json.v, <<"response.json">>)
        ELSE LET decoded == SchemaDecodeUnknown(schema, json.v)
             IN  Succeed(IF decoded.tag = "Right" THEN decoded.v ELSE json.v,
                         <<"response.json", "Schema.decodeUnknown">>)

parseResponse(schema, res) ==
    LET json == ResponseJson(res)
    IN  IF json.tag = "Left"
        THEN FailWith(json.v, <<"response.json">>)
        ELSE RunEither(SchemaDecodeUnknown(schema, json.v),
                       <<"response.json", "Schema.decodeUnknown">>)

\* getResponse reading the body even when there is no Output Maker
getResponse_reads(getter, res) ==
    IF ~Truthy(getter)
    THEN LET json == ResponseJson(res)
         IN  IF json.tag = "Left" THEN FailWith(json.v, <<"response.json">>)
             ELSE Succeed(json.v, <<"response.json">>)
    ELSE IF getter.kind = "@RestApiClient/Output/Schema"
    THEN LET parsed == parseResponse(getter.schema, res)
         IN  [parsed EXCEPT !.calls = <<"Output/Schema">> \o @]
    ELSE OutputFnApply(getter.fn, res)

getResponse(getter, res) ==
    IF ~Truthy(getter) THEN Succeed(res, <<>>)
    ELSE IF getter.kind = "@RestApiClient/Output/Schema"
    THEN LET parsed == parseResponse(getter.schema, res)
         IN  [parsed EXCEPT !.calls = <<"Output/Schema">> \o @]
    ELSE OutputFnApply(getter.fn, res)

\* getError that returns the decoded error instead of failing with it
getError_returns(getter, res) ==
    IF getter.kind = "@RestApiClient/Error/Schema"
    THEN LET parsed == parseResponse(getter.schema, res)
         IN  [parsed EXCEPT !.calls = <<"Error/Schema">> \o @]
    ELSE FailWith(ErrorFnApply(getter.fn, res), <<"Error/Fn">>)

getError(getter, res) ==
    IF getter.kind = "@RestApiClient/Error/Schema"
    THEN LET parsed == parseResponse(getter.schema, res)
         IN  FailWith(parsed.value, <<"Error/Schema">> \o parsed.calls)
    ELSE FailWith(ErrorFnApply(getter.fn, res), <<"Error/Fn">>)

\* the URL function called with undefined whatever the call gives
resolveUrl_dropsField(r, p) ==
    IF r.url.kind = "@RestApiClient/Url/Value"
    THEN Succeed(Str(r.url.url), <<>>)
    ELSE LET called == UrlFnApply(r.url.fn, Undefined)
         IN  IF called.exit = "success"
             THEN Succeed(Str(called.value), called.calls)
             ELSE called

\* a guard in front of the URL function: no url field, no call
resolveUrl_guarded(r, p) ==
    IF r.url.kind = "@RestApiClient/Url/Value"
    THEN Succeed(Str(r.url.url), <<>>)
    ELSE IF ~HasParam(p, "url") THEN FailWith([kind |-> "MissingUrl"], <<>>)
    ELSE LET called == UrlFnApply(r.url.fn, p.f["url"])
         IN  IF called.exit = "success"
             THEN Succeed(Str(called.value), called.calls)
             ELSE called

\* the url local of the returned function
resolveUrl(r, p) ==
    IF r.url.kind = "@RestApiClient/Url/Value"
    THEN Succeed(Str(r.url.url), <<>>)
    ELSE LET called == UrlFnApply(r.url.fn, IF HasParam(p, "url") THEN p.f["url"] ELSE Undefined)
         IN  IF called.exit = "success"
             THEN Succeed(Str(called.value), called.calls)
             ELSE called

\* the status test off by one at the upper end: 300 counts as OK
NotOk_upper(status) == status < 200 \/ status > 300

\* response.status < 200 || response.status >= 300
NotOk(status) == status < 200 \/ status >= 300

\* the condition of the status check
consultsError(r, res) == Truthy(r.error) /\ NotOk(res.status)

-----------------------------------------------------------------------------
(* RestApiClient.ts: the engine of the legacy module. Its Route holds the  *)
(* author's values as they are (union types, no tags).                     *)

\* typeof v === "function"
IsFunction(v) == v.kind \in {"function", "class"}

\* Schema.isSchema(v)
IsSchema(v) == v.kind \in {"schema", "class"}

\* spec.body && "data" in spec.body
IsStaticBody(v) == Truthy(v) /\ v.kind = "StaticBody"

Legacy_injectContentType(r, h) ==
    IF Falsy(HeadersGet("Content-Type", h)) /\ IsSchema(r.body)
    THEN HeadersSet("Content-Type", "application/json", h)
    ELSE h

\* the headers function called even when the call has no headers field
Legacy_getHeaders_callsFn(r, p) ==
    LET obtained ==
            IF ~Truthy(r.headers) THEN Succeed(HeadersEmpty, <<>>)
            ELSE IF IsFunction(r.headers) /\ HasParam(p, "headers")
                 THEN HeadersFnApply(r.headers.fn, p.f["headers"])
            ELSE IF IsFunction(r.headers) THEN Succeed(HeadersEmpty, <<"Headers/Fn">>)
            ELSE Succeed(r.headers, <<>>)
    IN  IF obtained.exit = "success"
        THEN Succeed(Legacy_injectContentType(r, obtained.value), obtained.calls)
        ELSE obtained

Legacy_getHeaders(r, p) ==
    LET obtained ==
            IF ~Truthy(r.headers) THEN Succeed(HeadersEmpty, <<>>)
            ELSE IF IsFunction(r.headers) /\ HasParam(p, "headers")
                 THEN HeadersFnApply(r.headers.fn, p.f["headers"])
            ELSE Succeed(r.headers, <<>>)
    IN  IF obtained.exit = "success"
        THEN Succeed(Legacy_injectContentType(r, obtained.value), obtained.calls)
        ELSE obtained

Legacy_getBody(r, p) ==
    IF IsStaticBody(r.body)
    THEN parseBody(r.body.schema, r.body.data)
    ELSE IF ~Truthy(r.body) \/ ~HasParam(p, "body")
    THEN Succeed(Undefined, <<>>)
    ELSE IF IsSchema(r.body)
    THEN parseBody(r.body, p.f["body"])
    ELSE InputFnApply(r.body.fn, p.f["body"])

Legacy_getResponse(getter, res) ==
    IF ~Truthy(getter) THEN Succeed(res, <<>>)
    ELSE IF IsSchema(getter)
    THEN LET parsed == parseResponse(getter, res)
         IN  [parsed EXCEPT !.calls = <<"Output/Schema">> \o @]
    ELSE OutputFnApply(getter.fn, res)

\* the decoded error returned instead of failed with
Legacy_getError_returns(getter, res) ==
    IF IsSchema(getter)
    THEN LET parsed == parseResponse(getter, res)
         IN  [parsed EXCEPT !.calls = <<"Error/Schema">> \o @]
    ELSE FailWith(ErrorFnApply(getter.fn, res), <<"Error/Fn">>)

Legacy_getError(getter, res) ==
    IF IsSchema(getter)
    THEN LET parsed == parseResponse(getter, res)
         IN  FailWith(parsed.value, <<"Error/Schema">> \o parsed.calls)
    ELSE FailWith(ErrorFnApply(getter.fn, res), <<"Error/Fn">>)

\* the URL maker passed on as it is, called or not
Legacy_resolveUrl_asIs(r, p) == Succeed(r.url, <<>>)

Legacy_resolveUrl(r, p) ==
    IF IsFunction(r.url) /\ HasParam(p, "url")
    THEN LET called == UrlFnApply(r.url, p.f["url"])
         IN  IF called.exit = "success"
             THEN Succeed(Str(called.value), called.calls)
             ELSE called
    ELSE Succeed(r.url, <<>>)

Legacy_consultsError(r, res) ==
    ~Truthy(r.filterStatusOk) /\ Truthy(r.error) /\ NotOk(res.status)

-----------------------------------------------------------------------------
(* The request, the transport and the layer *)

\* HttpClientRequest.setBody: the request takes the payload together with
\* the content type and length the payload declares
setBody(b) ==
    IF Truthy(b)
    THEN [k \in {"content-type", "content-length"} |->
            IF k = "content-type" THEN b.contentType ELSE ToString(b.contentLength)]
    ELSE [k \in {} |-> ""]

\* HttpClientRequest.setHeaders(headers): the given entries are set on the
\* header set the request has so far
setHeaders(have, h) ==
    LET given == HeadersEntries(h)
    IN  [k \in DOMAIN have \cup DOMAIN given |->
            IF k \in DOMAIN given THEN given[k] ELSE have[k]]

\* HttpClientRequest.make(method)(url) piped through setBody, when there is
\* a body, and setHeaders(headers)
\* a request without a body losing its Content-Type
makeRequest_typeWithBodyOnly(method, u, h, b) ==
    LET all == setHeaders(setBody(b), h)
    IN  [method |-> method, url |-> u, body |-> b,
         headers |-> IF Truthy(b) THEN all
                     ELSE [k \in DOMAIN all \ {"content-type"} |-> all[k]]]

makeRequest(method, u, h, b) ==
    [method |-> method, url |-> u, headers |-> setHeaders(setBody(b), h), body |-> b]

\* HttpClientRequest.bearerToken(token)
bearerToken(req, token) ==
    [req EXCEPT !.headers = HeadersEntries(
        HeadersSet("Authorization", "Bearer " \o token, HeadersInstance(req.headers)))]

\* layer joining base and path with one slash instead of concatenating
layer_normalised(cfg, req) ==
    LET authed == IF ~Falsy(cfg.accessToken)
                  THEN bearerToken(req, cfg.accessToken.s)
                  ELSE req
        base == IF Len(cfg.url) > 0 /\ cfg.url[Len(cfg.url)] = "/"
                THEN SubSeq(cfg.url, 1, Len(cfg.url) - 1) ELSE cfg.url
    IN  IF startsWith(authed.url.s, "/")
        THEN [authed EXCEPT !.url = Str(base \o authed.url.s)]
        ELSE authed

\* layer testing the token against undefined only: "" gets a header too
layer_anyToken(cfg, req) ==
    LET authed == IF cfg.accessToken.kind # "undefined"
                  THEN bearerToken(req, cfg.accessToken.s)
                  ELSE req
    IN  IF startsWith(authed.url.s, "/")
        THEN [authed EXCEPT !.url = Str(cfg.url \o authed.url.s)]
        ELSE authed

\* client.ts layer: the two mapRequestInput transformations
layer(cfg, req) ==
    LET authed == IF ~Falsy(cfg.accessToken)
                  THEN bearerToken(req, cfg.accessToken.s)
                  ELSE req
    IN  IF startsWith(authed.url.s, "/")
        THEN [authed EXCEPT !.url = Str(cfg.url \o authed.url.s)]
        ELSE authed

\* a status filter that lets every response through
filterStatusOk_passes(answer) == answer

\* HttpClient.filterStatusOk(client): a non-2xx response becomes a failure
filterStatusOk(answer) ==
    IF answer.exit = "success" /\ NotOk(answer.value.status)
    THEN FailWith(ResponseError("StatusCode"), answer.calls)
    ELSE answer

-----------------------------------------------------------------------------
(* The maker modules of the modular tree: constructors and fromMaker*      *)

Url_value(u) == [kind |-> "@RestApiClient/Url/Value", url |-> u]
Url_fn(f) == [kind |-> "@RestApiClient/Url/Fn", fn |-> f]
Headers_value(h) == [kind |-> "@RestApiClient/Headers/Value", headers |-> h]
Headers_fn(f) == [kind |-> "@RestApiClient/Headers/Fn", fn |-> f]
Input_value(schema, v) ==
    [kind |-> "@RestApiClient/Input/Value", schema |-> schema, value |-> v]
Input_schema(schema) == [kind |-> "@RestApiClient/Input/Schema", schema |-> schema]
Input_fn(f) == [kind |-> "@RestApiClient/Input/Fn", fn |-> f]
Output_schema(schema) == [kind |-> "@RestApiClient/Output/Schema", schema |-> schema]
Output_fn(f) == [kind |-> "@RestApiClient/Output/Fn", fn |-> f]
Error_schema(schema) == [kind |-> "@RestApiClient/Error/Schema", schema |-> schema]
Error_fn(f) == [kind |-> "@RestApiClient/Error/Fn", fn |-> f]

fromMakerUrl(u) == IF u.kind = "string" THEN Url_value(u.s) ELSE Url_fn(u)
fromMakerHeaders(h) == IF h.kind = "headers" THEN Headers_value(h) ELSE Headers_fn(h)
fromMakerInput(i) ==
    IF i.kind = "@RestApiClient/Input/Value" THEN i
    ELSE IF IsSchema(i) THEN Input_schema(i) ELSE Input_fn(i)
\* the typeof test made first: whatever is callable is a Custom Function
fromMakerOutput_typeofFirst(o) == IF IsFunction(o) THEN Output_fn(o) ELSE Output_schema(o)
fromMakerOutput(o) == IF IsSchema(o) THEN Output_schema(o) ELSE Output_fn(o)
fromMakerError(e) == IF IsSchema(e) THEN Error_schema(e) ELSE Error_fn(e)

\* make.ts toRoute: spec is the author's object (a function on its own keys)
toRoute(s) ==
    [kind |-> "@RestApiClient/Route",
     method |-> s["method"],
     url |-> fromMakerUrl(s["url"]),
     headers |-> IF Truthy(Field(s, "headers"))
                 THEN fromMakerHeaders(s["headers"]) ELSE Undefined,
     body |-> IF Truthy(Field(s, "body")) THEN fromMakerInput(s["body"]) ELSE Undefined,
     response |-> IF Truthy(Field(s, "response"))
                  THEN fromMakerOutput(s["response"]) ELSE Undefined,
     error |-> IF Truthy(Field(s, "error")) THEN fromMakerError(s["error"]) ELSE Undefined]

\* RestApiClient.ts: new Route(args) keeps the author's values
Legacy_Route(s) ==
    [kind |-> "@RestApiClient/Route",
     method |-> s["method"],
     url |-> Field(s, "url"),
     headers |-> Field(s, "headers"),
     body |-> Field(s, "body"),
     response |-> Field(s, "response"),
     error |-> Field(s, "error"),
     filterStatusOk |-> Field(s, "filterStatusOk")]

\* RestApiClient.ts body(schema, data)
StaticBody(schema, data) == [kind |-> "StaticBody", schema |-> schema, data |-> data]

WithMethod(m) == [k \in {"method"} |-> m]

\* get / post / put / del of either module: the route make is given
methodRoute(i, s, m) ==
    IF i = "modular" THEN toRoute(Spread(s, WithMethod(m)))
    ELSE Legacy_Route(Spread(s, WithMethod(m)))

\* { headers: this.headers, error: this.error, ...spec }
clientDefaults(c) ==
    [k \in {"headers", "error"} |-> Field(c, k)]

\* the spread written the other way round: the client defaults win
clientSpec_defaultsWin(c, s) == Spread(s, clientDefaults(c))
\* the merge made by value: a field whose value is undefined falls back to
\* the client default
clientSpec_byValue(c, s) ==
    [k \in DOMAIN s \cup {"headers", "error"} |->
        IF Field(s, k) # Undefined THEN s[k] ELSE Field(clientDefaults(c), k)]

clientSpec(c, s) == Spread(clientDefaults(c), s)

\* Client.get / post / put / del of either module
clientRoute(i, c, s, m) == methodRoute(i, clientSpec(c, s), m)

-----------------------------------------------------------------------------
(* The values the environment supplies *)

NoKeys == [k \in {} |-> Undefined]
Key(k, v) == [x \in {k} |-> v]

Values == 0 .. MaxValue
TodoCodec == Codec("Todo")
ApiErrorCodec == Codec("ApiError")
FixedValue == Typed("Todo", 0)

StaticHeaders ==
    { HeadersFromInput(Key("X-Api", "k")),
      HeadersFromInput(Key("Content-Type", "")) }

\* Routes handed to make() of the modular tree
ModularRoutes ==
    { [kind |-> "@RestApiClient/Route", method |-> m, url |-> u, headers |-> h,
       body |-> b, response |-> o, error |-> e] :
        m \in {"GET", "POST"},
        u \in {Url_value(RelUrl), Url_fn(Fun("todoUrl")), Url_fn(Fun("listUrl"))},
        h \in {Undefined, Headers_fn(Fun("mkHeaders"))}
                \cup {Headers_value(x) : x \in StaticHeaders},
        b \in {Undefined, Input_value(TodoCodec, FixedValue), Input_schema(TodoCodec),
               Input_fn(Fun("textBody"))},
        o \in {Undefined, Output_schema(TodoCodec), Output_fn(Fun("withStatus"))},
        e \in {Undefined, Error_schema(ApiErrorCodec), Error_fn(Fun("statusError"))} }

\* Routes handed to make() of the legacy module
LegacyRoutes ==
    { [kind |-> "@RestApiClient/Route", method |-> m, url |-> u, headers |-> h,
       body |-> b, response |-> o, error |-> e, filterStatusOk |-> f] :
        m \in {"GET", "POST"},
        u \in {Str(RelUrl), Fun("todoUrl"), Fun("listUrl")},
        h \in {Undefined, Fun("mkHeaders")} \cup StaticHeaders,
        b \in {Undefined, StaticBody(TodoCodec, FixedValue), TodoCodec, Fun("textBody")},
        o \in {Undefined, TodoCodec, Fun("withStatus")},
        e \in {Undefined, ApiErrorCodec, Fun("statusError")},
        f \in {Undefined, Bool(FALSE), Bool(TRUE)} }

\* Call-time arguments: none at all, or an object with any of the fields
CallParams ==
    {Undefined} \cup
    { Params(Spread(Spread(u, h), b)) :
        u \in {NoKeys, Key("url", Arg("id", <<"1">>))},
        h \in {NoKeys, Key("headers", Arg("Content-Type", "text/plain")),
               Key("headers", Arg("bad", ""))},
        b \in {NoKeys, Key("body", Typed("Bad", 0)),
               Key("body", Typed("Todo", MaxValue))} }

\* Response statuses: typical ones, and the ones either side of the two
\* ends of the OK range
Statuses == {200, 404}
EdgeStatuses == {199, 299, 300}

Bodies ==
    {Unreadable, Json("ApiError", MaxValue)} \cup {Json("Todo", n) : n \in Values}

\* What the underlying transport answers: a transport failure, or a
\* response; the edge statuses come with one body each
Replies ==
    {FailWith([kind |-> "RequestError"], <<>>)} \cup
    {Succeed([kind |-> "response", status |-> st, body |-> b], <<>>) :
        st \in Statuses, b \in Bodies} \cup
    {Succeed([kind |-> "response", status |-> st, body |-> Json("Todo", 0)], <<>>) :
        st \in EdgeStatuses}

-----------------------------------------------------------------------------
(* State machine *)

\* one Client, one callable function, one invocation: nothing side by side
Single == clients = <<>> /\ callables = <<>> /\ runs = <<>>

InitLocals ==
    /\ route = Undefined
    /\ params = Undefined
    /\ pc = "idle"
    /\ url = Undefined
    /\ headers = Undefined
    /\ body = Undefined
    /\ request = Undefined
    /\ sent = Undefined
    /\ reply = Undefined
    /\ response = Undefined
    /\ outcome = Undefined
    /\ log = <<>>

Init ==
    /\ impl \in {"modular", "legacy"}
    /\ client = NoKeys
    /\ spec \in (IF impl = "modular" THEN ModularRoutes ELSE LegacyRoutes)
    /\ config = [url |-> BaseUrl, accessToken |-> Undefined]
    /\ layerOn = FALSE
    /\ InitLocals
    /\ Single

\* make(route): returns the callable function; nothing runs
Make ==
    /\ pc = "idle"
    /\ route' = spec
    /\ pc' = "built"
    /\ UNCHANGED <<clients, callables, runs>>
    /\ UNCHANGED <<impl, client, spec, config, layerOn, params, url, headers, body,
                   request, sent, reply, response, outcome, log>>

\* the call computing the URL on the spot, outside the deferred computation
InvokeWith_eager(P) ==
    /\ pc = "built"
    /\ \E p \in P : params' = p
    /\ pc' = "called"
    /\ log' = IF route.url.kind \in {"@RestApiClient/Url/Fn", "function"}
              THEN <<"Url/Fn">> ELSE log
    /\ UNCHANGED <<clients, callables, runs>>
    /\ UNCHANGED <<impl, client, spec, route, config, layerOn, url, headers, body,
                   request, sent, reply, response, outcome>>

\* calling the function returns the deferred computation; nothing runs
InvokeWith(P) ==
    /\ pc = "built"
    /\ \E p \in P : params' = p
    /\ pc' = "called"
    /\ UNCHANGED <<clients, callables, runs>>
    /\ UNCHANGED <<impl, client, spec, route, config, layerOn, url, headers, body,
                   request, sent, reply, response, outcome, log>>

Invoke == InvokeWith(CallParams)

\* one step of the generator: on success go on, otherwise exit with it
Advance(step, res, nextpc) ==
    /\ log' = log \o <<step>> \o res.calls
    /\ IF res.exit = "success"
       THEN pc' = nextpc /\ outcome' = outcome
       ELSE pc' = "done" /\ outcome' = [exit |-> res.exit, value |-> res.value]

ResolveUrl ==
    /\ pc = "called"
    /\ LET res == IF impl = "modular" THEN resolveUrl(route, params)
                  ELSE Legacy_resolveUrl(route, params)
       IN  /\ Advance("url", res, "headers")
           /\ url' = IF res.exit = "success" THEN res.value ELSE url
    /\ UNCHANGED <<clients, callables, runs>>
    /\ UNCHANGED <<impl, client, spec, route, config, layerOn, params, headers, body,
                   request, sent, reply, response>>

GetHeaders ==
    /\ pc = "headers"
    /\ LET res == IF impl = "modular" THEN getHeaders(route, params)
                  ELSE Legacy_getHeaders(route, params)
       IN  /\ Advance("headers", res, "body")
           /\ headers' = IF res.exit = "success" THEN res.value ELSE headers
    /\ UNCHANGED <<clients, callables, runs>>
    /\ UNCHANGED <<impl, client, spec, route, config, layerOn, params, url, body,
                   request, sent, reply, response>>

\* the body computed before the headers
GetBody_beforeHeaders ==
    /\ pc = "headers"
    /\ \A i \in DOMAIN log : log[i] # "body"
    /\ LET res == IF impl = "modular" THEN getBody(route, params)
                  ELSE Legacy_getBody(route, params)
       IN  /\ log' = log \o <<"body">> \o res.calls
           /\ body' = IF res.exit = "success" THEN res.value ELSE body
           /\ IF res.exit = "success"
              THEN pc' = pc /\ outcome' = outcome
              ELSE pc' = "done" /\ outcome' = [exit |-> res.exit, value |-> res.value]
    /\ UNCHANGED <<clients, callables, runs>>
    /\ UNCHANGED <<impl, client, spec, route, config, layerOn, params, url, headers,
                   request, sent, reply, response>>

GetBody ==
    /\ pc = "body"
    /\ LET res == IF impl = "modular" THEN getBody(route, params)
                  ELSE Legacy_getBody(route, params)
       IN  /\ Advance("body", res, "execute")
           /\ body' = IF res.exit = "success" THEN res.value ELSE body
    /\ UNCHANGED <<clients, callables, runs>>
    /\ UNCHANGED <<impl, client, spec, route, config, layerOn, params, url, headers,
                   request, sent, reply, response>>

\* the status filter applied to every route of either module
Transport_alwaysFilters(r, answer) == filterStatusOk(answer)

\* the transport the engine executes on: the injected one, wrapped by
\* filterStatusOk when the legacy route asks for it
Transport(r, answer) ==
    IF impl = "legacy" /\ Truthy(r.filterStatusOk)
    THEN filterStatusOk(answer) ELSE answer

\* the engine re-issuing the request once when the status is not OK
ExecuteWith_retries(R) ==
    /\ pc = "execute"
    /\ url.kind = "string"
    /\ \E answer \in R :
          LET req == makeRequest(route.method, url, headers, body)
              res == Transport(route, answer)
              again == answer.exit = "success" /\ NotOk(answer.value.status)
          IN  /\ request' = req
              /\ sent' = IF layerOn THEN layer(config, req) ELSE req
              /\ reply' = answer
              /\ Advance("execute",
                         [res EXCEPT !.calls = IF again THEN <<"transport", "transport">>
                                               ELSE <<"transport">>],
                         "classify")
              /\ response' = IF res.exit = "success" THEN res.value ELSE response
    /\ UNCHANGED <<clients, callables, runs>>
    /\ UNCHANGED <<impl, client, spec, route, config, layerOn, params, url, headers,
                   body>>

\* Request assembly and client.execute(request). A url that is not a string
\* (the legacy module passes the URL function itself on when the call has no
\* url field) is outside what the request constructor and the layer's
\* req.url.startsWith are defined for: the run may die there with a
\* TypeError, or, without the layer, go on with the value as it is.
ExecuteWith(R) ==
    /\ pc = "execute"
    /\ \/ /\ url.kind # "string"
          /\ Advance("execute", DieWith([kind |-> "TypeError"], <<>>), "classify")
          /\ UNCHANGED <<request, sent, reply, response>>
       \/ /\ url.kind = "string" \/ ~layerOn
          /\ \E answer \in R :
                LET req == makeRequest(route.method, url, headers, body)
                    res == Transport(route, answer)
                IN  /\ request' = req
                    /\ sent' = IF layerOn THEN layer(config, req) ELSE req
                    /\ reply' = answer
                    /\ Advance("execute", [res EXCEPT !.calls = <<"transport">>],
                               "classify")
                    /\ response' = IF res.exit = "success" THEN res.value ELSE response
    /\ UNCHANGED <<clients, callables, runs>>
    /\ UNCHANGED <<impl, client, spec, route, config, layerOn, params, url, headers,
                   body>>

Execute == ExecuteWith(Replies)

\* the status check waiting on a status that is not OK instead of going on
Classify_waits ==
    /\ pc = "classify"
    /\ IF NotOk(response.status)
       THEN UNCHANGED <<pc, outcome, log>>
       ELSE Advance("classify", Succeed(Undefined, <<>>), "output")
    /\ UNCHANGED <<clients, callables, runs>>
    /\ UNCHANGED <<impl, client, spec, route, config, layerOn, params, url, headers,
                   body, request, sent, reply, response>>

\* the status check: getError when the Error Maker is consulted
Classify ==
    /\ pc = "classify"
    /\ LET consulted == IF impl = "modular" THEN consultsError(route, response)
                        ELSE Legacy_consultsError(route, response)
           res == IF ~consulted THEN Succeed(Undefined, <<>>)
                  ELSE IF impl = "modular" THEN getError(route.error, response)
                  ELSE Legacy_getError(route.error, response)
       IN  Advance("classify", res, "output")
    /\ UNCHANGED <<clients, callables, runs>>
    /\ UNCHANGED <<impl, client, spec, route, config, layerOn, params, url, headers,
                   body, request, sent, reply, response>>

GetResponse ==
    /\ pc = "output"
    /\ LET res == IF impl = "modular" THEN getResponse(route.response, response)
                  ELSE Legacy_getResponse(route.response, response)
       IN  /\ log' = log \o <<"output">> \o res.calls
           /\ outcome' = [exit |-> res.exit, value |-> res.value]
           /\ pc' = "done"
    /\ UNCHANGED <<clients, callables, runs>>
    /\ UNCHANGED <<impl, client, spec, route, config, layerOn, params, url, headers,
                   body, request, sent, reply, response>>

Run == ResolveUrl \/ GetHeaders \/ GetBody \/ Execute \/ Classify \/ GetResponse

Next == Make \/ Invoke \/ Run

Spec == Init /\ [][Next]_vars

\* The returned function of make as one computation, for module i: what it
\* ends with once the transport has answered (status check, then getResponse)
AfterReply(i, r, res) ==
    IF res.exit # "success" THEN [exit |-> res.exit, value |-> res.value]
    ELSE LET consulted == IF i = "modular" THEN consultsError(r, res.value)
                          ELSE Legacy_consultsError(r, res.value)
             err == IF ~consulted THEN Succeed(Undefined, <<>>)
                    ELSE IF i = "modular" THEN getError(r.error, res.value)
                    ELSE Legacy_getError(r.error, res.value)
             out == IF i = "modular" THEN getResponse(r.response, res.value)
                    ELSE Legacy_getResponse(r.response, res.value)
         IN  IF err.exit # "success" THEN [exit |-> err.exit, value |-> err.value]
             ELSE [exit |-> out.exit, value |-> out.value]

\* The request handed to the transport and the outcome of one invocation of
\* the function make returns in module i, run on its own with parameters p
\* against a transport that answers with answer. A set, because request
\* assembly with a url that is not a string has more than one outcome.
RunAlone(i, r, p, answer) ==
    LET u == IF i = "modular" THEN resolveUrl(r, p) ELSE Legacy_resolveUrl(r, p)
        h == IF i = "modular" THEN getHeaders(r, p) ELSE Legacy_getHeaders(r, p)
        b == IF i = "modular" THEN getBody(r, p) ELSE Legacy_getBody(r, p)
        stop(res) == [request |-> Undefined,
                      outcome |-> [exit |-> res.exit, value |-> res.value]]
        res == IF i = "legacy" /\ Truthy(r.filterStatusOk)
               THEN filterStatusOk(answer) ELSE answer
    IN  IF u.exit # "success" THEN {stop(u)}
        ELSE IF h.exit # "success" THEN {stop(h)}
        ELSE IF b.exit # "success" THEN {stop(b)}
        ELSE (IF u.value.kind # "string"
              THEN {stop(DieWith([kind |-> "TypeError"], <<>>))} ELSE {})
             \cup {[request |-> makeRequest(r.method, u.value, h.value, b.value),
                    outcome |-> AfterReply(i, r, res)]}

-----------------------------------------------------------------------------
(* Clients and the layer: routes built by Client.get/post/put/del and run  *)
(* on a transport wrapped by layer                                         *)

H0 == HeadersFromInput(Key("X-Api", "k"))
H1 == HeadersFromInput(Key("Authorization", "Basic x"))
E0 == ApiErrorCodec
E1 == Fun("statusError")

\* new Client({...}): the fields given to the constructor
Clients ==
    { Spread(h, e) : h \in {NoKeys, Key("headers", H0)},
                     e \in {NoKeys, Key("error", E0)} }

\* Per-route specifications; a key may be present with the value undefined
ClientSpecs ==
    { Spread(Spread(Spread(Spread(u, h), e), b), o) :
        u \in {Key("url", Str(RelUrl)), Key("url", Str(AbsUrl)),
               Key("url", Fun("todoUrl"))},
        h \in {NoKeys, Key("headers", H1), Key("headers", Undefined)},
        e \in {NoKeys, Key("error", E1), Key("error", Undefined)},
        b \in {NoKeys, Key("body", TodoCodec)},
        o \in {NoKeys, Key("response", TodoCodec)} }

Configs ==
    { [url |-> BaseUrl, accessToken |-> t] : t \in {Undefined, Str(""), Str("tok")} }

ClientCallParams ==
    { Undefined,
      Params(Key("url", Arg("id", <<"1">>))),
      Params(Spread(Key("url", Arg("id", <<"1">>)), Key("body", Typed("Todo", MaxValue)))) }

ClientReplies ==
    { FailWith([kind |-> "RequestError"], <<>>),
      Succeed([kind |-> "response", status |-> 200, body |-> Json("Todo", 0)], <<>>),
      Succeed([kind |-> "response", status |-> 404, body |-> Json("ApiError", MaxValue)],
              <<>>) }

InitClient ==
    /\ impl \in {"modular", "legacy"}
    /\ client \in Clients
    /\ spec \in ClientSpecs
    /\ config \in Configs
    /\ layerOn = TRUE
    /\ InitLocals
    /\ Single

\* client.get(spec) and its siblings: the callable function is returned
ClientBuild(m) ==
    /\ pc = "idle"
    /\ route' = clientRoute(impl, client, spec, m)
    /\ pc' = "built"
    /\ UNCHANGED <<clients, callables, runs>>
    /\ UNCHANGED <<impl, client, spec, config, layerOn, params, url, headers, body,
                   request, sent, reply, response, outcome, log>>

ClientGet == ClientBuild("GET")
ClientPost == ClientBuild("POST")
ClientPut == ClientBuild("PUT")
ClientDel == ClientBuild("DELETE")

ClientInvoke == InvokeWith(ClientCallParams)
ClientExecute == ExecuteWith(ClientReplies)

NextClient ==
    \/ ClientGet \/ ClientPost \/ ClientPut \/ ClientDel
    \/ ClientInvoke
    \/ ResolveUrl \/ GetHeaders \/ GetBody \/ ClientExecute \/ Classify \/ GetResponse

SpecClient == InitClient /\ [][NextClient]_vars

-----------------------------------------------------------------------------
(* Several Clients, callable functions and invocations side by side: the   *)
(* host runtime interleaves the steps of the invocations as it likes       *)

Ids == 1 .. 2

\* two Clients with different defaults
PairClients ==
    <<Spread(Key("headers", H0), Key("error", E0)), Key("headers", H1)>>

PairSpecs ==
    { Key("url", Str(RelUrl)),
      Spread(Spread(Spread(Spread(Key("url", Fun("todoUrl")),
                                  Key("headers", Fun("mkHeaders"))),
                           Key("body", TodoCodec)),
                    Key("response", TodoCodec)),
             Key("error", E1)) }

PairParams ==
    { Undefined,
      Params(Spread(Spread(Key("url", Arg("id", <<"1">>)),
                           Key("headers", Arg("Content-Type", "text/plain"))),
                    Key("body", Typed("Todo", MaxValue)))) }

PairReplies ==
    { Succeed([kind |-> "response", status |-> 200, body |-> Json("Todo", 0)], <<>>),
      Succeed([kind |-> "response", status |-> 404, body |-> Json("ApiError", MaxValue)],
              <<>>) }

\* the locals of an invocation that has not been called yet; met records
\* whether it was called while another invocation was under way
IdleRun ==
    [pc |-> "idle", fn |-> 0, params |-> Undefined, url |-> Undefined,
     headers |-> Undefined, body |-> Undefined, request |-> Undefined,
     reply |-> Undefined, response |-> Undefined, outcome |-> Undefined,
     met |-> FALSE]

InitPair ==
    /\ impl \in {"modular", "legacy"}
    /\ client = NoKeys
    /\ spec = Undefined
    /\ config = [url |-> BaseUrl, accessToken |-> Undefined]
    /\ layerOn = FALSE
    /\ InitLocals
    /\ clients = PairClients
    /\ callables = [k \in Ids |-> Undefined]
    /\ runs = [j \in Ids |-> IdleRun]

\* the builder writing the per-route headers back into the Client
PairBuild_keeps(m) ==
    \E k \in Ids, c \in Ids, s \in PairSpecs :
        /\ callables[k] = Undefined
        /\ \A x \in 1 .. k - 1 : callables[x] # Undefined
        /\ callables' = [callables EXCEPT ![k] =
              [client |-> c, spec |-> s, method |-> m,
               route |-> clientRoute(impl, clients[c], s, m)]]
        /\ clients' = [clients EXCEPT ![c] = Spread(@, Key("headers", Field(s, "headers")))]
        /\ UNCHANGED <<runs, impl, client, spec, route, config, layerOn, params, pc, url,
                       headers, body, request, sent, reply, response, outcome, log>>

\* clients[c].get(s) and its siblings: a new callable function, the next of
\* the list; the Client is read, never written
PairBuild(m) ==
    \E k \in Ids, c \in Ids, s \in PairSpecs :
        /\ callables[k] = Undefined
        /\ \A x \in 1 .. k - 1 : callables[x] # Undefined
        /\ callables' = [callables EXCEPT ![k] =
              [client |-> c, spec |-> s, method |-> m,
               route |-> clientRoute(impl, clients[c], s, m)]]
        /\ UNCHANGED <<clients, runs, impl, client, spec, route, config, layerOn, params,
                       pc, url, headers, body, request, sent, reply, response, outcome,
                       log>>

PairGet == PairBuild("GET")
PairPost == PairBuild("POST")
PairPut == PairBuild("PUT")
PairDel == PairBuild("DELETE")

\* another invocation is between its call and its end
OtherUnderWay(j) == \E o \in Ids \ {j} : runs[o].pc \notin {"idle", "done"}

\* the locals of run after a step with exit res
Advanced(j, res, nextpc) ==
    IF res.exit = "success"
    THEN [runs[j] EXCEPT !.pc = nextpc]
    ELSE [runs[j] EXCEPT !.pc = "done",
                         !.outcome = [exit |-> res.exit, value |-> res.value]]

PairFrame ==
    UNCHANGED <<clients, callables, impl, client, spec, route, config, layerOn, params,
                pc, url, headers, body, request, sent, reply, response, outcome, log>>

\* calling callable function k: a deferred computation with its own locals,
\* the next of the list
PairInvoke ==
    \E j \in Ids, k \in Ids, p \in PairParams :
        /\ runs[j].pc = "idle"
        /\ \A x \in 1 .. j - 1 : runs[x].pc # "idle"
        /\ callables[k] # Undefined
        /\ runs' = [runs EXCEPT ![j] = [@ EXCEPT !.pc = "called", !.fn = k, !.params = p,
                                                 !.met = OtherUnderWay(j)]]
        /\ PairFrame

\* the Route invocation j runs on
RouteOf(j) == callables[runs[j].fn].route

PairResolveUrl ==
    \E j \in Ids :
        /\ runs[j].pc = "called"
        /\ LET res == IF impl = "modular" THEN resolveUrl(RouteOf(j), runs[j].params)
                      ELSE Legacy_resolveUrl(RouteOf(j), runs[j].params)
           IN  runs' = [runs EXCEPT ![j] =
                   [Advanced(j, res, "headers") EXCEPT
                       !.url = IF res.exit = "success" THEN res.value ELSE @]]
        /\ PairFrame

\* the header set kept in one place for all invocations
PairGetHeaders_shared ==
    \E j \in Ids :
        /\ runs[j].pc = "headers"
        /\ LET res == IF impl = "modular" THEN getHeaders(RouteOf(j), runs[j].params)
                      ELSE Legacy_getHeaders(RouteOf(j), runs[j].params)
           IN  runs' = [o \in Ids |->
                   [(IF o = j THEN Advanced(j, res, "body") ELSE runs[o]) EXCEPT
                       !.headers = IF res.exit = "success" THEN res.value ELSE @]]
        /\ PairFrame

PairGetHeaders ==
    \E j \in Ids :
        /\ runs[j].pc = "headers"
        /\ LET res == IF impl = "modular" THEN getHeaders(RouteOf(j), runs[j].params)
                      ELSE Legacy_getHeaders(RouteOf(j), runs[j].params)
           IN  runs' = [runs EXCEPT ![j] =
                   [Advanced(j, res, "body") EXCEPT
                       !.headers = IF res.exit = "success" THEN res.value ELSE @]]
        /\ PairFrame

PairGetBody ==
    \E j \in Ids :
        /\ runs[j].pc = "body"
        /\ LET res == IF impl = "modular" THEN getBody(RouteOf(j), runs[j].params)
                      ELSE Legacy_getBody(RouteOf(j), runs[j].params)
           IN  runs' = [runs EXCEPT ![j] =
                   [Advanced(j, res, "execute") EXCEPT
                       !.body = IF res.exit = "success" THEN res.value ELSE @]]
        /\ PairFrame

\* request assembly and client.execute(request), as in ExecuteWith
PairExecute ==
    \E j \in Ids :
        /\ runs[j].pc = "execute"
        /\ \/ /\ runs[j].url.kind # "string"
              /\ runs' = [runs EXCEPT ![j] =
                     Advanced(j, DieWith([kind |-> "TypeError"], <<>>), "classify")]
           \/ \E answer \in PairReplies :
                 LET req == makeRequest(RouteOf(j).method, runs[j].url, runs[j].headers,
                                        runs[j].body)
                     res == Transport(RouteOf(j), answer)
                 IN  runs' = [runs EXCEPT ![j] =
                         [Advanced(j, res, "classify") EXCEPT
                             !.request = req, !.reply = answer,
                             !.response = IF res.exit = "success" THEN res.value ELSE @]]
        /\ PairFrame

PairClassify ==
    \E j \in Ids :
        /\ runs[j].pc = "classify"
        /\ LET r == RouteOf(j)
               consulted == IF impl = "modular" THEN consultsError(r, runs[j].response)
                            ELSE Legacy_consultsError(r, runs[j].response)
               res == IF ~consulted THEN Succeed(Undefined, <<>>)
                      ELSE IF impl = "modular" THEN getError(r.error, runs[j].response)
                      ELSE Legacy_getError(r.error, runs[j].response)
           IN  runs' = [runs EXCEPT ![j] = Advanced(j, res, "output")]
        /\ PairFrame

PairGetResponse ==
    \E j \in Ids :
        /\ runs[j].pc = "output"
        /\ LET r == RouteOf(j)
               res == IF impl = "modular" THEN getResponse(r.response, runs[j].response)
                      ELSE Legacy_getResponse(r.response, runs[j].response)
           IN  runs' = [runs EXCEPT ![j] =
                   [@ EXCEPT !.pc = "done",
                             !.outcome = [exit |-> res.exit, value |-> res.value]]]
        /\ PairFrame

NextPair ==
    \/ PairGet \/ PairPost \/ PairPut \/ PairDel
    \/ PairInvoke
    \/ PairResolveUrl \/ PairGetHeaders \/ PairGetBody \/ PairExecute \/ PairClassify
    \/ PairGetResponse

SpecPair == InitPair /\ [][NextPair]_vars

-----------------------------------------------------------------------------
(* One invocation run to its end: the runtime keeps running a deferred     *)
(* computation it has started, and every maker function, body read and     *)
(* transport call comes back                                               *)

LiveRoutes ==
    { [kind |-> "@RestApiClient/Route", method |-> "POST", url |-> u, headers |-> h,
       body |-> b, response |-> Output_schema(TodoCodec),
       error |-> Error_schema(ApiErrorCodec)] :
        u \in {Url_value(RelUrl), Url_fn(Fun("todoUrl"))},
        h \in {Undefined, Headers_fn(Fun("mkHeaders"))},
        b \in {Undefined, Input_fn(Fun("textBody"))} }

Legacy_LiveRoutes ==
    { [kind |-> "@RestApiClient/Route", method |-> "POST", url |-> u, headers |-> h,
       body |-> b, response |-> TodoCodec, error |-> ApiErrorCodec,
       filterStatusOk |-> f] :
        u \in {Str(RelUrl), Fun("todoUrl")},
        h \in {Undefined, Fun("mkHeaders")},
        b \in {Undefined, Fun("textBody")},
        f \in {Undefined, Bool(TRUE)} }

LiveParams ==
    { Undefined,
      Params(Spread(Spread(Key("url", Arg("id", <<"1">>)),
                           Key("headers", Arg("Content-Type", "text/plain"))),
                    Key("body", Typed("Todo", MaxValue)))),
      Params(Spread(Key("headers", Arg("bad", "")), Key("body", Typed("Bad", 0)))) }

LiveReplies ==
    { FailWith([kind |-> "RequestError"], <<>>),
      Succeed([kind |-> "response", status |-> 200, body |-> Json("Todo", MaxValue)], <<>>),
      Succeed([kind |-> "response", status |-> 200, body |-> Unreadable], <<>>),
      Succeed([kind |-> "response", status |-> 404, body |-> Json("ApiError", 0)], <<>>),
      Succeed([kind |-> "response", status |-> 404, body |-> Unreadable], <<>>) }

InitLive ==
    /\ impl \in {"modular", "legacy"}
    /\ client = NoKeys
    /\ spec \in (IF impl = "modular" THEN LiveRoutes ELSE Legacy_LiveRoutes)
    /\ config = [url |-> BaseUrl, accessToken |-> Undefined]
    /\ layerOn = FALSE
    /\ InitLocals
    /\ Single

LiveInvoke == InvokeWith(LiveParams)
LiveExecute == ExecuteWith(LiveReplies)

\* the steps of the deferred computation once it is run
LiveRun ==
    ResolveUrl \/ GetHeaders \/ GetBody \/ LiveExecute \/ Classify \/ GetResponse

NextLive == Make \/ LiveInvoke \/ LiveRun

\* a computation that has been started is run on, and what it waits for
\* comes back
Fairness == WF_vars(LiveRun)

SpecLive == InitLive /\ [][NextLive]_vars /\ Fairness

-----------------------------------------------------------------------------
(* toRoute on its own: the author's specification object classified into a *)
(* Route                                                                   *)

TodoClass == SchemaClass("Todo")

\* a field left out, or one of the given values
Optional(k, vs) == {NoKeys} \cup {Key(k, v) : v \in vs}

\* what an author can write in a specification object
AuthorSpecs ==
    { Spread(Spread(Spread(Spread(Spread(WithMethod(m), Key("url", u)), h), b), o), e) :
        m \in {"GET", "POST"},
        u \in {Str(RelUrl), Str(<<>>), Fun("todoUrl")},
        h \in Optional("headers", {Undefined, H0, Fun("mkHeaders")}),
        b \in Optional("body", {Undefined, Input_value(TodoCodec, FixedValue), TodoCodec,
                                TodoClass, Fun("textBody")}),
        o \in Optional("response", {TodoCodec, TodoClass, Fun("withStatus")}),
        e \in Optional("error", {ApiErrorCodec, TodoClass, Fun("statusError")}) }

InitToRoute ==
    /\ impl = "modular"
    /\ client = NoKeys
    /\ spec \in AuthorSpecs
    /\ config = [url |-> BaseUrl, accessToken |-> Undefined]
    /\ layerOn = FALSE
    /\ InitLocals
    /\ Single

\* toRoute(spec)
ToRoute ==
    /\ pc = "idle"
    /\ route' = toRoute(spec)
    /\ pc' = "built"
    /\ UNCHANGED <<clients, callables, runs>>
    /\ UNCHANGED <<impl, client, spec, config, layerOn, params, url, headers, body,
                   request, sent, reply, response, outcome, log>>

NextToRoute == ToRoute

SpecToRoute == InitToRoute /\ [][NextToRoute]_vars

-----------------------------------------------------------------------------
(* Properties *)

\* the event occurs in the trace of the invocation
Called(ev) == \E i \in DOMAIN log : log[i] = ev
Count(ev) == Cardinality({i \in DOMAIN log : log[i] = ev})

ErrorInvoked == Called("Error/Schema") \/ Called("Error/Fn")
OutputInvoked == Called("output") \/ Called("Output/Schema") \/ Called("Output/Fn")

\* a status outside 200..299
OutsideOk(st) == st \notin 200 .. 299

\* the status check of the modular engine has been passed on a response
Classified == impl = "modular" /\ Called("classify") /\ response # Undefined

\* what consulting an Error Maker on a response produces: the author's
\* function applied to the response, or the JSON body decoded by the codec
DecodedBody(codecName, res) ==
    IF res.body.kind = "json" /\ res.body.shape = codecName
    THEN Typed(codecName, res.body.n)
    ELSE IF res.body.kind = "json" THEN ParseError(codecName)
    ELSE ResponseError("Decode")

ErrorProduced(getter, res) ==
    IF getter.kind = "@RestApiClient/Error/Fn"
    THEN [kind |-> "StatusError", status |-> res.status]
    ELSE DecodedBody(getter.schema.name, res)

\* C1 as stated: with an Error Maker and a status outside 200..299 the
\* invocation fails with the value the Error Maker produces from the
\* response - for a Declarative Codec the value decoded from the JSON body -
\* and the Output Maker is never invoked.
C1_Original ==
    (Classified /\ Truthy(route.error) /\ OutsideOk(response.status)) =>
        /\ pc = "done"
        /\ outcome.exit = "failure"
        /\ ~OutputInvoked
        /\ IF route.error.kind = "@RestApiClient/Error/Fn"
           THEN outcome.value = [kind |-> "StatusError", status |-> response.status]
           ELSE /\ response.body.kind = "json"
                /\ response.body.shape = route.error.schema.name
                /\ outcome.value = Typed(route.error.schema.name, response.body.n)

\* C1 amended: with an Error Maker and a status outside 200..299 the
\* invocation fails, the Error Maker is consulted exactly once and the
\* Output Maker never; the failure is the value the Error Maker produces,
\* or, for a Declarative Codec whose body cannot be read as JSON or does not
\* decode, the read or decode failure.
C1_Amended ==
    (Classified /\ Truthy(route.error) /\ OutsideOk(response.status)) =>
        /\ pc = "done"
        /\ outcome.exit = "failure"
        /\ outcome.value = ErrorProduced(route.error, response)
        /\ Count("Error/Schema") + Count("Error/Fn") = 1
        /\ ~OutputInvoked

C1_Witness ==
    /\ Classified
    /\ Truthy(route.error) /\ route.error.kind = "@RestApiClient/Error/Schema"
    /\ Truthy(route.response)
    /\ response.status = 404
    /\ outcome = [exit |-> "failure", value |-> Typed("ApiError", MaxValue)]

\* C2: the Error Maker is invoked exactly when one is configured and the
\* status is outside 200..299; for 200..299 it is never invoked and the run
\* goes on to output resolution.
C2_ErrorMakerIffOutside ==
    Classified =>
        /\ ErrorInvoked <=> (Truthy(route.error) /\ OutsideOk(response.status))
        /\ ~OutsideOk(response.status) =>
              /\ ~ErrorInvoked
              /\ pc \in {"output", "done"}
              /\ pc = "done" => Called("output") /\ outcome # Undefined

C2_Witness ==
    /\ Classified
    /\ Truthy(route.error)
    /\ response.status = 300
    /\ ErrorInvoked
    /\ pc = "done"

\* the legacy route asks for the status filter
Filtering == impl = "legacy" /\ Truthy(route.filterStatusOk)

\* the outcome output resolution gives on a response whatever its status
OutputAsFor2xx ==
    /\ Called("output")
    /\ ~Truthy(route.response) => outcome = [exit |-> "success", value |-> response]
    /\ ( /\ Truthy(route.response)
         /\ route.response.kind \in {"@RestApiClient/Output/Schema", "schema"}
         /\ response.body.kind = "json" /\ response.body.shape = "Todo" ) =>
            outcome = [exit |-> "success", value |-> Typed("Todo", response.body.n)]

\* the transport answered with a response and the invocation is over
Answered == pc = "done" /\ reply # Undefined /\ reply.exit = "success"

\* C3 as stated: without an Error Maker any response, whatever its status,
\* goes to output resolution exactly as a 2xx response does; the status
\* never makes the invocation fail.
C3_Original ==
    (Answered /\ ~Truthy(route.error)) =>
        /\ response = reply.value
        /\ OutputAsFor2xx

\* C3 amended: the same, for every route of the modular tree and for the
\* legacy routes that do not set filterStatusOk.
C3_Amended ==
    (Answered /\ ~Truthy(route.error) /\ ~Filtering) =>
        /\ response = reply.value
        /\ OutputAsFor2xx

C3_Witness ==
    /\ Answered /\ ~Truthy(route.error) /\ ~Filtering
    /\ reply.value.status = 404
    /\ Truthy(route.response)
    /\ outcome = [exit |-> "success", value |-> Typed("Todo", MaxValue)]

\* the header set the Headers Maker yields, before any injection: empty
\* without a maker, the static set, or what the function builds from the
\* headers field of the call (header names are kept in lower case)
ObtainedHeaders ==
    IF ~Truthy(route.headers) THEN [k \in {} |-> ""]
    ELSE IF route.headers.kind = "@RestApiClient/Headers/Value"
         THEN route.headers.headers.h
    ELSE IF HasParam(params, "headers")
         THEN [k \in {toLowerCase(params.f["headers"].name)} |-> params.f["headers"].v]
    ELSE [k \in {} |-> ""]

JsonEncodable ==
    /\ Truthy(route.body)
    /\ route.body.kind \in {"@RestApiClient/Input/Value", "@RestApiClient/Input/Schema"}

WithJsonContentType(h) ==
    [k \in DOMAIN h \cup {"content-type"} |->
        IF k = "content-type" THEN "application/json" ELSE h[k]]

\* header computation of the modular engine has succeeded
HeadersComputed == impl = "modular" /\ Called("headers") /\ headers # Undefined

\* C4: the outgoing header set is the obtained set plus Content-Type:
\* application/json when the obtained set has no Content-Type and the Input
\* Maker is a Static Value or a Declarative Codec, and the obtained set
\* unchanged otherwise; an existing Content-Type is never overwritten.
C4_ContentTypeInjection ==
    HeadersComputed =>
        headers.h = IF "content-type" \notin DOMAIN ObtainedHeaders /\ JsonEncodable
                    THEN WithJsonContentType(ObtainedHeaders)
                    ELSE ObtainedHeaders

\* the route's Input Maker is a Static Value (codec, fixedValue)
StaticInput ==
    /\ route # Undefined
    /\ Truthy(route.body)
    /\ route.body.kind \in {"@RestApiClient/Input/Value", "StaticBody"}

StaticCodec == route.body.schema
StaticFixedValue ==
    IF impl = "modular" THEN route.body.value ELSE route.body.data

\* C5: a route with a Static Value Input Maker sends, on every invocation,
\* the body obtained by encoding fixedValue through codec, whatever the call
\* passes as body.
C5_StaticBodySent ==
    (StaticInput /\ request # Undefined) =>
        request.body = HttpBody("application/json",
                                Json(StaticCodec.name, StaticFixedValue.n))

\* a run of the modular engine for a route with a Custom-Function Headers
\* Maker, called without a headers field, has sent its request
SentWithoutHeadersParam ==
    /\ impl = "modular" /\ request # Undefined
    /\ Truthy(route.headers) /\ route.headers.kind = "@RestApiClient/Headers/Fn"
    /\ ~HasParam(params, "headers")

\* C6 as stated: a Custom-Function Headers Maker called with no headers
\* field sends an empty header set and the function is never invoked.
C6_Original ==
    SentWithoutHeadersParam =>
        /\ request.headers = [k \in {} |-> ""]
        /\ ~Called("Headers/Fn")

\* the headers a request carries on account of the payload attached to it
PayloadHeaders ==
    IF request.body = Undefined THEN [k \in {} |-> ""]
    ELSE [k \in {"content-type", "content-length"} |->
            IF k = "content-type" THEN request.body.contentType
            ELSE ToString(request.body.contentLength)]

\* C6 amended: the function is never invoked and the Headers Maker
\* contributes no header: the header set computed for the request is empty,
\* or holds only the auto-injected Content-Type: application/json when the
\* Input Maker is a Static Value or a Declarative Codec, and the request
\* sent carries nothing besides that set and the content type and length of
\* the payload attached to it.
C6_Amended ==
    SentWithoutHeadersParam =>
        /\ ~Called("Headers/Fn")
        /\ headers.h = IF JsonEncodable
                       THEN [k \in {"content-type"} |-> "application/json"]
                       ELSE [k \in {} |-> ""]
        /\ DOMAIN request.headers = DOMAIN headers.h \cup DOMAIN PayloadHeaders
        /\ \A k \in DOMAIN request.headers :
              request.headers[k] = IF k \in DOMAIN headers.h THEN headers.h[k]
                                   ELSE PayloadHeaders[k]

C6_Witness ==
    /\ SentWithoutHeadersParam
    /\ Truthy(params)
    /\ Truthy(route.body)
    /\ request.headers = [k \in {} |-> ""]

\* the value a built route is expected to hold for a field: the per-route
\* value when the specification carries the field, the client default
\* otherwise
Chosen(k) == IF HasKey(spec, k) THEN spec[k] ELSE Field(client, k)

\* a maker as the route of either module keeps it: the modular tree tags
\* it, the legacy module keeps the author's value
Kept(v, tagged) ==
    IF impl = "legacy" \/ v.kind = "undefined" THEN v ELSE tagged

\* a Client method has built its route
ClientBuilt == layerOn /\ route # Undefined

\* C7: a route built by client.get/post/put/del takes, separately for
\* headers and for error, the per-route field when the specification
\* carries it and the client default otherwise; url, body and response
\* come from the specification.
C7_ClientDefaults ==
    ClientBuilt =>
        /\ route.headers = Kept(Chosen("headers"), fromMakerHeaders(Chosen("headers")))
        /\ route.error = Kept(Chosen("error"), fromMakerError(Chosen("error")))
        /\ route.url = Kept(spec["url"], fromMakerUrl(spec["url"]))
        /\ route.body = Kept(Field(spec, "body"), fromMakerInput(Field(spec, "body")))
        /\ route.response =
              Kept(Field(spec, "response"), fromMakerOutput(Field(spec, "response")))
        /\ route.method \in {"GET", "POST", "PUT", "DELETE"}

C7_Witness ==
    /\ ClientBuilt
    /\ impl = "modular" /\ route.method = "GET"
    /\ Field(client, "headers") = H0 /\ Field(client, "error") = E0
    /\ ~HasKey(spec, "headers") /\ Field(spec, "error") = E1
    /\ route.headers = Headers_value(H0)
    /\ route.error = Error_fn(E1)
    /\ pc = "done" /\ outcome = [exit |-> "failure",
                                  value |-> [kind |-> "StatusError", status |-> 404]]

\* a request has reached the transport underneath the layer
Forwarded == layerOn /\ sent # Undefined

\* C8: underneath the layer the transport sees B + u, plainly concatenated,
\* when the request URL u begins with "/", and u itself otherwise.
C8_BaseUrl ==
    Forwarded =>
        LET u == request.url.s
        IN  sent.url.s = IF Len(u) > 0 /\ Head(u) = "/" THEN config.url \o u ELSE u

C8_Witness ==
    /\ Forwarded
    /\ request.url.s = <<"/", "t">>
    /\ sent.url.s = <<"h", ":", "b", "/", "/", "t">>

\* the configured access token is present and not the empty string
TokenPresent ==
    /\ config.accessToken.kind = "string"
    /\ config.accessToken.s # ""

\* C9: underneath the layer every request carries Authorization: Bearer
\* <accessToken> when the token is present and non-empty, whatever its URL,
\* and otherwise its headers are the ones the route computed.
C9_BearerToken ==
    Forwarded =>
        IF TokenPresent
        THEN sent.headers =
                [k \in DOMAIN request.headers \cup {"authorization"} |->
                    IF k = "authorization" THEN "Bearer " \o config.accessToken.s
                    ELSE request.headers[k]]
        ELSE sent.headers = request.headers

C9_Witness ==
    /\ Forwarded
    /\ TokenPresent
    /\ sent.url.s = AbsUrl
    /\ "content-type" \in DOMAIN request.headers
    /\ "authorization" \in DOMAIN request.headers
    /\ sent.headers["authorization"] = "Bearer tok"

\* the steps of one invocation, in the order the claim gives them
StepOrder == <<"url", "headers", "body", "execute", "classify", "output">>

IsStep(ev) == ev \in {"url", "headers", "body", "execute", "classify", "output"}

\* the steps begun so far, in the order they began
Steps == SelectSeq(log, IsStep)

\* the steps during which a maker, codec, body read or transport call may run
StepsOf(ev) ==
    IF ev = "Url/Fn" THEN {"url"}
    ELSE IF ev = "Headers/Fn" THEN {"headers"}
    ELSE IF ev \in {"Input/Fn", "Schema.encode", "HttpBody.json"} THEN {"body"}
    ELSE IF ev = "transport" THEN {"execute"}
    ELSE IF ev \in {"Error/Schema", "Error/Fn"} THEN {"classify"}
    ELSE IF ev \in {"Output/Schema", "Output/Fn"} THEN {"output"}
    ELSE {"classify", "output"}

\* the call at position i of the trace runs inside one of its own steps:
\* the last step begun before it is one of them
InOwnStep(i) ==
    \E j \in 1 .. (i - 1) :
        /\ log[j] \in StepsOf(log[i])
        /\ \A k \in (j + 1) .. (i - 1) : ~IsStep(log[k])

\* the position the engine is at, as the number of steps it has begun
Begun ==
    IF pc = "called" THEN {0}
    ELSE IF pc = "headers" THEN {1}
    ELSE IF pc = "body" THEN {2}
    ELSE IF pc = "execute" THEN {3}
    ELSE IF pc = "classify" THEN {4}
    ELSE IF pc = "output" THEN {5}
    ELSE IF pc = "done" THEN 1 .. 6
    ELSE {0}

\* C10: within one invocation the steps run in the order URL, headers, body,
\* transport, status classification, output, each at most once and only
\* after the one before it succeeded; every maker runs inside its own step,
\* so the Input Maker never runs before the Headers Maker is done and no
\* response maker runs before the transport has returned.
C10_StepOrder ==
    LET steps == Steps
    IN  /\ Len(steps) <= Len(StepOrder)
        /\ steps = SubSeq(StepOrder, 1, Len(steps))
        /\ Len(steps) \in Begun
        /\ \A i \in DOMAIN log : IsStep(log[i]) \/ InOwnStep(i)
        /\ (outcome # Undefined /\ outcome.exit # "success") => pc = "done"
        /\ (pc = "done" /\ Len(steps) < Len(StepOrder)) => outcome.exit # "success"

C10_Witness ==
    /\ pc = "done"
    /\ log = <<"url", "Url/Fn", "headers", "Headers/Fn", "body", "Input/Fn",
               "execute", "transport", "classify", "output", "Output/Fn">>
    /\ outcome.exit = "success"

\* the Custom-Function Headers Maker was handed a field it fails on
HeadersMakerFails ==
    /\ Called("Headers/Fn")
    /\ params.f["headers"].name = "bad"

\* the value handed to the codec of the Input Maker is not of its type, so
\* Schema.encode rejects it
EncodingFails ==
    /\ Called("Schema.encode")
    /\ IF impl = "modular"
       THEN /\ route.body.kind = "@RestApiClient/Input/Schema"
            /\ SchemaEncode(route.body.schema, params.f["body"]).tag = "Left"
       ELSE /\ IsSchema(route.body)
            /\ SchemaEncode(route.body, params.f["body"]).tag = "Left"

\* the Custom-Function Input Maker was handed a value it fails on
InputMakerFails ==
    /\ Called("Input/Fn")
    /\ ~(params.f["body"].kind = "typed" /\ params.f["body"].type = "Todo")

\* the transport answered with a failure
TransportFails == reply # Undefined /\ reply.exit = "failure"

BodyInvoked ==
    Called("body") \/ Called("Input/Fn") \/ Called("Schema.encode") \/ Called("HttpBody.json")

FailedWith(kind) ==
    pc = "done" /\ outcome.exit = "failure" /\ outcome.value.kind = kind

\* C11 without its clause on body encoding: a failing Headers Maker stops
\* the run before the Input Maker and the transport, a failing Input Maker
\* before the transport, a failing transport before the Error and Output
\* Makers, and the outcome is that failure.
AbortsOnMakerFailure ==
    /\ HeadersMakerFails =>
          FailedWith("HeaderError") /\ ~BodyInvoked /\ ~Called("transport")
    /\ InputMakerFails => FailedWith("BodyError") /\ ~Called("transport")
    /\ TransportFails =>
          /\ pc = "done" /\ outcome = [exit |-> "failure", value |-> reply.value]
          /\ ~ErrorInvoked /\ ~OutputInvoked

\* C11: a failure is never recovered and aborts all later steps: of the
\* Headers Maker (no Input Maker, no transport call), of body encoding or
\* the Input Maker (no transport call), of the transport (no Error or
\* Output Maker); the outcome is that same failure.
C11_FailuresAbort ==
    /\ AbortsOnMakerFailure
    /\ EncodingFails =>
          /\ FailedWith("ParseError")
          /\ ~Called("transport")

\* the run is over and had begun the dispatch step, which it does exactly
\* when header and body computation both succeeded
EndedAfterBody == pc = "done" /\ Called("execute")

NotRunYet == pc \in {"idle", "built", "called"}

\* the route has a Custom Function in every maker position
AllCustom ==
    /\ route # Undefined
    /\ \A k \in {"url", "headers", "body", "response", "error"} :
          Truthy(route[k]) /\
          route[k].kind \in {"function", "@RestApiClient/Url/Fn",
                             "@RestApiClient/Headers/Fn", "@RestApiClient/Input/Fn",
                             "@RestApiClient/Output/Fn", "@RestApiClient/Error/Fn"}

\* C13: building a route and calling the resulting function do no work:
\* until the deferred computation is run, no custom function has been
\* invoked, nothing has been computed and no request has reached the
\* transport.
C13_NothingBeforeRun ==
    NotRunYet =>
        /\ log = <<>>
        /\ url = Undefined /\ headers = Undefined /\ body = Undefined
        /\ request = Undefined /\ sent = Undefined
        /\ reply = Undefined /\ response = Undefined
        /\ outcome = Undefined

C13_Witness ==
    /\ pc = "called"
    /\ AllCustom
    /\ HasParam(params, "url") /\ HasParam(params, "headers") /\ HasParam(params, "body")
    /\ log = <<>> /\ request = Undefined

\* a run of the legacy engine on which the transport answered with a response
LegacyAnswered == impl = "legacy" /\ reply # Undefined /\ reply.exit = "success"

\* C16: in the legacy make(), with filterStatusOk true every response with
\* a status outside 200..299 fails the invocation with the transport's
\* status failure and neither the Error Maker nor the Output Maker runs;
\* with filterStatusOk false or absent the response reaches the engine
\* untouched and the Error Maker is consulted exactly when one is
\* configured and the status is outside 200..299.
C16_LegacyFilter ==
    LegacyAnswered =>
        IF route.filterStatusOk = Bool(TRUE)
        THEN /\ ~ErrorInvoked
             /\ OutsideOk(reply.value.status) =>
                   /\ pc = "done"
                   /\ outcome = [exit |-> "failure",
                                 value |-> [kind |-> "ResponseError",
                                            reason |-> "StatusCode"]]
                   /\ ~OutputInvoked /\ ~Called("classify")
             /\ ~OutsideOk(reply.value.status) => response = reply.value
        ELSE /\ response = reply.value
             /\ Called("classify") =>
                   (ErrorInvoked <=>
                       (Truthy(route.error) /\ OutsideOk(response.status)))

C16_Witness ==
    /\ LegacyAnswered
    /\ route.filterStatusOk = Bool(TRUE)
    /\ Truthy(route.error) /\ Truthy(route.response)
    /\ reply.value.status = 404
    /\ FailedWith("ResponseError")

\* with the flag false the Error Maker is consulted
C16_WitnessUnfiltered ==
    /\ LegacyAnswered
    /\ route.filterStatusOk = Bool(FALSE)
    /\ reply.value.status = 404
    /\ ErrorInvoked

\* output resolution has run on a response
Resolved == pc = "done" /\ Called("output") /\ response # Undefined

\* C17: with no Output Maker, a run that the Error Maker path does not fail
\* succeeds with the very response the transport returned, and the engine
\* never reads the response body.
C17_RawResponse ==
    (pc = "done" /\ response # Undefined /\ ~Truthy(route.response) /\ ~ErrorInvoked) =>
        /\ Called("output")
        /\ outcome = [exit |-> "success", value |-> reply.value]
        /\ response = reply.value
        /\ ~Called("response.json") /\ ~Called("Schema.decodeUnknown")

C17_Witness ==
    /\ Resolved /\ ~Truthy(route.response)
    /\ Truthy(route.error)
    /\ response.status = 200
    /\ response.body = Unreadable
    /\ outcome = [exit |-> "success", value |-> response]

\* the route's Output Maker is a Declarative Codec, and its name
CodecOutput ==
    /\ Truthy(route.response)
    /\ route.response.kind \in {"@RestApiClient/Output/Schema", "schema"}

OutputCodecName ==
    IF impl = "modular" THEN route.response.schema.name ELSE route.response.name

\* the response body is not JSON, or JSON the output codec rejects
Undecodable ==
    response.body.kind # "json" \/ response.body.shape # OutputCodecName

\* C18: with a Declarative Codec Output Maker, when output resolution is
\* reached and the body cannot be read as JSON or the codec rejects it,
\* the invocation fails with that read or decode failure, for a 2xx status
\* too, and the failure is no value of an Error Maker: none was consulted.
C18_DecodeFailure ==
    (Resolved /\ CodecOutput /\ Undecodable) =>
        /\ outcome.exit = "failure"
        /\ outcome.value = IF response.body.kind # "json"
                           THEN [kind |-> "ResponseError", reason |-> "Decode"]
                           ELSE [kind |-> "ParseError", schema |-> OutputCodecName]
        /\ ~ErrorInvoked
        /\ outcome.value.kind \notin {"typed", "StatusError"}

C18_Witness ==
    /\ Resolved /\ CodecOutput /\ Undecodable
    /\ Truthy(route.error)
    /\ response.status = 200
    /\ response.body.kind = "json"
    /\ FailedWith("ParseError")


\* A body maker was run: an author's Input function, or the codec's encoder
BodyMakerRun == Called("Input/Fn") \/ Called("Schema.encode") \/ Called("HttpBody.json")

\* C20: for every route whose method is GET, the body step does nothing: no
\* Input Maker is invoked, nothing is encoded, the body local stays
\* undefined and the request that is handed to the transport has no body,
\* whatever body maker the description carries at run time.
C20_GetSkipsBody ==
    (route # Undefined /\ route.method = "GET") =>
        /\ ~BodyMakerRun
        /\ body = Undefined
        /\ (request # Undefined => request.body = Undefined)


\* The answers the finished run can have been given: the one it got, or any
\* when it ended before the transport was called
AnswersSeen == IF reply # Undefined THEN {reply} ELSE Replies

\* The request and the outcome of the finished run
Result == [request |-> request, outcome |-> outcome]

\* The step-by-step run of the engine ends as the function run on its own
RunIsRunAlone ==
    pc = "done" => \E a \in AnswersSeen : Result \in RunAlone(impl, route, params, a)


\* A finished run of the legacy module on a route outside the two documented
\* divergences: no status filter, and an Input Maker that is not a Static
\* Value
Comparable ==
    /\ impl = "legacy" /\ pc = "done"
    /\ ~Truthy(route.filterStatusOk)
    /\ ~IsStaticBody(route.body)

\* The modular tree's make, given the same description, parameters and
\* answer, sends the same request and reports the same outcome
SameAsModular ==
    \A a \in AnswersSeen : Result \in RunAlone("modular", toRoute(route), params, a)

\* The call gives the URL function, if the route has one, a url field
UrlFieldGiven == IsFunction(route.url) => HasParam(params, "url")

\* C19 as stated: outside the two documented divergences, for every route,
\* every call-time parameter object (none, or one omitting url, headers or
\* body) and every transport answer, the legacy make and the modular make
\* send the same request and report the same outcome.
C19_Original == Comparable => SameAsModular

\* C19, amended: the two makes send the same request and report the same
\* outcome outside the two documented divergences and a third one: a route
\* with a Custom Function URL Maker invoked without a url field, where the
\* modular tree calls the function with undefined and the legacy module
\* passes the function itself on as the URL.
C19_Amended == (Comparable /\ UrlFieldGiven) => SameAsModular


\* A legacy run compared on every point: URL function given its url field,
\* headers function and codec body given theirs, a 404 answer classified by
\* the Error Maker
C19_Witness ==
    /\ Comparable /\ UrlFieldGiven
    /\ IsFunction(route.url) /\ IsFunction(route.headers) /\ IsSchema(route.body)
    /\ HasParam(params, "headers") /\ HasParam(params, "body")
    /\ route.error # Undefined
    /\ reply # Undefined /\ reply.exit = "success" /\ reply.value.status = 404
    /\ request # Undefined /\ request.body # Undefined
    /\ outcome.exit = "failure"


\* Callable function k still closes over the Route its builder made from
\* the Client it was called on, as that Client was constructed
AsBuilt(k) ==
    LET c == callables[k]
    IN  c.route = clientRoute(impl, PairClients[c.client], c.spec, c.method)

\* C14: whatever client.get/post/put/del calls and invocations have taken
\* place, every Client has the headers/error defaults it was constructed
\* with, and every Route is field for field the one its builder made from
\* its own Client's defaults and the per-route specification: no field of it
\* has changed and it carries no other Client's defaults.
C14_NothingMutated ==
    /\ clients = PairClients
    /\ \A k \in Ids : callables[k] # Undefined => AsBuilt(k)

\* Two functions built from different Clients, with no headers of their own,
\* each invoked to its end
C14_Witness ==
    /\ \A k \in Ids : callables[k] # Undefined /\ ~HasKey(callables[k].spec, "headers")
    /\ callables[1].client # callables[2].client
    /\ callables[1].route.headers # callables[2].route.headers
    /\ runs[1].pc = "done" /\ runs[2].pc = "done"
    /\ runs[1].fn # runs[2].fn
    /\ runs[1].request # Undefined /\ runs[2].request # Undefined

\* The request and outcome of invocation j, and the answers it may have had
PairResult(j) == [request |-> runs[j].request, outcome |-> runs[j].outcome]
PairAnswers(j) == IF runs[j].reply # Undefined THEN {runs[j].reply} ELSE PairReplies

\* C15: however the steps of the invocations are interleaved, every finished
\* invocation has sent the request and reports the outcome that the same
\* function gives when run alone with the same parameters and the same
\* transport answer.
C15_Independent ==
    \A j \in Ids :
        runs[j].pc = "done" =>
            \E a \in PairAnswers(j) :
                PairResult(j) \in RunAlone(impl, RouteOf(j), runs[j].params, a)

\* Two invocations of the same function that overlapped in time, with
\* different parameters, both ended after their requests were sent
C15_Witness ==
    /\ runs[1].pc = "done" /\ runs[2].pc = "done"
    /\ runs[2].met
    /\ runs[1].fn = runs[2].fn
    /\ runs[1].params # runs[2].params
    /\ runs[1].request # Undefined /\ runs[2].request # Undefined
    /\ runs[1].request # runs[2].request


\* header computation of the legacy engine has succeeded for a route with a
\* Custom Function Headers Maker, called without a headers field
LegacyWithoutHeadersParam ==
    /\ impl = "legacy" /\ Called("headers") /\ headers # Undefined
    /\ IsFunction(route.headers)
    /\ ~HasParam(params, "headers")

\* the header set auto-injection leaves when it starts from the empty one
InjectedOnly ==
    IF IsSchema(route.body)
    THEN HeadersInstance([k \in {"content-type"} |-> "application/json"])
    ELSE HeadersEmpty

LegacyHeadersComputed == impl = "legacy" /\ Called("headers") /\ headers # Undefined

\* the entries the legacy Headers Maker yields, before auto-injection
LegacyObtainedHeaders ==
    IF ~Truthy(route.headers) THEN [k \in {} |-> ""]
    ELSE IF IsFunction(route.headers)
         THEN IF HasParam(params, "headers")
              THEN [k \in {toLowerCase(params.f["headers"].name)} |-> params.f["headers"].v]
              ELSE [k \in {} |-> ""]
    ELSE route.headers.h

\* C22: in the legacy getHeaders, Content-Type: application/json is added to
\* the obtained header set exactly when the Input Maker is a Declarative
\* Codec and the obtained set has no Content-Type; otherwise the obtained
\* set is left as it is, in particular for a StaticBody Input Maker, whose
\* value is nevertheless sent as a JSON body.
C22_LegacyInjection ==
    LegacyHeadersComputed =>
        /\ HeadersEntries(headers) =
              IF "content-type" \notin DOMAIN LegacyObtainedHeaders /\ IsSchema(route.body)
              THEN WithJsonContentType(LegacyObtainedHeaders)
              ELSE LegacyObtainedHeaders
        /\ (IsStaticBody(route.body) /\ request # Undefined) =>
              /\ request.body # Undefined
              /\ request.body.contentType = "application/json"


\* the route's URL Maker is a Static Value / a Custom Function, in the
\* representation of either module
StaticUrl ==
    IF impl = "modular" THEN route.url.kind = "@RestApiClient/Url/Value"
    ELSE route.url.kind = "string"

StaticUrlString == IF impl = "modular" THEN route.url.url ELSE route.url.s

UrlFunction == IF impl = "modular" THEN route.url.fn ELSE route.url

\* C23: once the URL step has run, a Static Value URL Maker has given its
\* string verbatim, whatever the call-time parameters, and no function was
\* called; a Custom Function URL Maker given a url field has been called
\* exactly once, with that field's value, and the URL is exactly the string
\* it returned; that URL is the URL of the request.
C23_UrlResolution ==
    (route # Undefined /\ Called("url")) =>
        /\ StaticUrl =>
              /\ url = Str(StaticUrlString)
              /\ ~Called("Url/Fn")
        /\ (~StaticUrl /\ HasParam(params, "url")) =>
              /\ Count("Url/Fn") = 1
              /\ url = Str(UrlFnApply(UrlFunction, params.f["url"]).value)
        /\ (StaticUrl \/ HasParam(params, "url")) =>
              (request # Undefined => request.url = url)

\* a URL built from the url field went out with the request
C23_Witness ==
    /\ route # Undefined /\ ~StaticUrl /\ HasParam(params, "url")
    /\ route.url.fn = (IF impl = "modular" THEN Fun("todoUrl") ELSE "todoUrl")
    /\ request # Undefined
    /\ request.url = Str(<<"/", "t", "/", "1">>)
    /\ pc = "done"


\* the route's Input Maker is a Declarative Codec / a Custom Function, in
\* the representation of either module
CodecInput ==
    /\ Truthy(route.body)
    /\ IF impl = "modular" THEN route.body.kind = "@RestApiClient/Input/Schema"
       ELSE IsSchema(route.body)

InputCodec == IF impl = "modular" THEN route.body.schema ELSE route.body

FunctionInput ==
    /\ Truthy(route.body)
    /\ IF impl = "modular" THEN route.body.kind = "@RestApiClient/Input/Fn"
       ELSE IsFunction(route.body)

\* the body step has run on a route whose Input Maker is not a Static Value
BodyStepRun == route # Undefined /\ Called("body") /\ ~StaticInput

\* nothing to send: no Input Maker, or no body field in the call
NothingToSend == ~Truthy(route.body) \/ ~HasParam(params, "body")

\* the body is absent and nothing was invoked when there is nothing to send
AbsentWhenNothingToSend ==
    (BodyStepRun /\ NothingToSend) => (body = Undefined /\ ~BodyMakerRun)

\* the body is what the author's function made of the call-time value
FunctionBody ==
    (BodyStepRun /\ ~NothingToSend /\ FunctionInput) =>
        /\ Count("Input/Fn") = 1
        /\ ~Called("Schema.encode")
        /\ LET made == InputFnApply(route.body.fn, params.f["body"])
           IN  IF made.exit = "success" THEN body = made.value
               ELSE body = Undefined /\ pc = "done"

\* the body is the JSON payload of the call-time value encoded by the codec
CodecBody ==
    (BodyStepRun /\ ~NothingToSend /\ CodecInput
        /\ params.f["body"].kind = "typed" /\ params.f["body"].type = InputCodec.name) =>
        body = HttpBody("application/json", Json(InputCodec.name, params.f["body"].n))

\* C24: getBody on a route whose Input Maker is not a Static Value: with no
\* Input Maker or no body field the body is absent and neither a function
\* nor an encoder is invoked; for a Declarative Codec the body is the JSON
\* payload of the call-time value encoded through the codec; for a Custom
\* Function it is the payload the function returns, called once with the
\* call-time value.
C24_BodySelection == AbsentWhenNothingToSend /\ CodecBody /\ FunctionBody


\* the author's value for field k of the specification; undefined if absent
Written(k) == Field(spec, k)

\* the value is a codec: a schema instance or a schema class
WrittenCodec(v) == v.kind \in {"schema", "class"}

\* C25: toRoute classifies every specification object, each field by what
\* the author wrote: a string URL is a Static Value and any other URL a
\* Custom Function; a header-set instance is a Static Value, anything else a
\* Custom Function; an Input.Value body is kept as it is, a codec is a
\* Declarative Codec, anything else a Custom Function; a codec response or
\* error is a Declarative Codec, anything else a Custom Function; a schema
\* class is a codec, never a Custom Function; an absent maker stays absent.
C25_Classification ==
    (pc = "built" /\ spec # Undefined /\ spec \in AuthorSpecs) =>
        /\ route.method = spec["method"]
        /\ route.url = IF Written("url").kind = "string"
                       THEN Url_value(Written("url").s) ELSE Url_fn(Written("url"))
        /\ route.headers =
              IF Written("headers") = Undefined THEN Undefined
              ELSE IF Written("headers").kind = "headers"
                   THEN Headers_value(Written("headers"))
              ELSE Headers_fn(Written("headers"))
        /\ route.body =
              IF Written("body") = Undefined THEN Undefined
              ELSE IF Written("body").kind = "@RestApiClient/Input/Value"
                   THEN Written("body")
              ELSE IF WrittenCodec(Written("body")) THEN Input_schema(Written("body"))
              ELSE Input_fn(Written("body"))
        /\ route.response =
              IF Written("response") = Undefined THEN Undefined
              ELSE IF WrittenCodec(Written("response"))
                   THEN Output_schema(Written("response"))
              ELSE Output_fn(Written("response"))
        /\ route.error =
              IF Written("error") = Undefined THEN Undefined
              ELSE IF WrittenCodec(Written("error")) THEN Error_schema(Written("error"))
              ELSE Error_fn(Written("error"))

\* a specification with schema classes, a headers key holding undefined and
\* no error has been classified
C25_Witness ==
    /\ pc = "built" /\ spec \in AuthorSpecs
    /\ HasKey(spec, "headers") /\ spec["headers"] = Undefined
    /\ Written("body") = TodoClass /\ Written("response") = TodoClass
    /\ ~HasKey(spec, "error")
    /\ route.headers = Undefined /\ route.error = Undefined
    /\ route.body = Input_schema(TodoClass)
    /\ route.response = Output_schema(TodoClass)


\* an Error Maker is configured and not bypassed by the legacy status filter
ErrorMakerActive == route # Undefined /\ Truthy(route.error) /\ ~Filtering

\* the invocation has observed a response with a status outside 200..299
SawOutsideOk == response # Undefined /\ OutsideOk(response.status)

\* the Error Maker is a Declarative Codec, in either representation
CodecError ==
    IF impl = "modular" THEN route.error.kind = "@RestApiClient/Error/Schema"
    ELSE IsSchema(route.error)

ErrorCodecName == IF impl = "modular" THEN route.error.schema.name ELSE route.error.name

\* the body of the response cannot be read as JSON, or is not what the
\* error codec decodes
ErrorBodyUnusable ==
    ~(response.body.kind = "json" /\ response.body.shape = ErrorCodecName)

\* C26: with an Error Maker configured and not bypassed, an invocation that
\* has observed a status outside 200..299 never goes on to output
\* resolution and never ends in success: it ends in failure, and when the
\* Error Maker is a Declarative Codec whose body read or decoding fails,
\* the failure is that read or decode failure, not a domain error.
C26_NeverSuccess ==
    (ErrorMakerActive /\ SawOutsideOk) =>
        /\ pc \in {"classify", "done"}
        /\ ~OutputInvoked
        /\ pc = "done" =>
              /\ outcome.exit = "failure"
              /\ (CodecError /\ ErrorBodyUnusable) =>
                    outcome.value = IF response.body.kind = "json"
                                    THEN ParseError(ErrorCodecName)
                                    ELSE ResponseError("Decode")

\* a legacy run whose error codec could not read the body of a 404
C26_Witness ==
    /\ impl = "legacy" /\ ErrorMakerActive /\ SawOutsideOk
    /\ CodecError /\ Truthy(route.response)
    /\ response.status = 404 /\ response.body = Unreadable
    /\ pc = "done"
    /\ outcome = [exit |-> "failure", value |-> ResponseError("Decode")]


\* the per-route specification carries the key with the value undefined
WrittenUndefined(k) == HasKey(spec, k) /\ spec[k] = Undefined

\* C27: the Client merges by key presence: when the per-route specification
\* carries headers (or error) with the value undefined, the built route has
\* no Headers Maker (no Error Maker), whatever the Client's default: no
\* header of the default reaches the computed header set, and a response
\* outside 200..299 is not classified as an error but goes on to output
\* resolution.
C27_UndefinedOverrides ==
    ClientBuilt =>
        /\ WrittenUndefined("headers") =>
              /\ route.headers = Undefined
              /\ (headers # Undefined /\ HasKey(client, "headers")) =>
                    \A k \in DOMAIN client["headers"].h : k \notin DOMAIN HeadersEntries(headers)
        /\ WrittenUndefined("error") =>
              /\ route.error = Undefined
              /\ ~ErrorInvoked
              /\ (pc = "done" /\ response # Undefined /\ OutsideOk(response.status)) =>
                    Called("output")

\* a Client with both defaults, a route overriding both with undefined, a
\* 404 that came back as the result
C27_Witness ==
    /\ ClientBuilt
    /\ Field(client, "headers") = H0 /\ Field(client, "error") = E0
    /\ WrittenUndefined("headers") /\ WrittenUndefined("error")
    /\ headers # Undefined
    /\ response # Undefined /\ response.status = 404
    /\ pc = "done" /\ Called("output") /\ outcome.exit = "success"


\* the entries the Headers Maker yields, before auto-injection, in either
\* module
AnyObtainedHeaders ==
    IF impl = "modular" THEN ObtainedHeaders ELSE LegacyObtainedHeaders

\* a request went out for a route with a Declarative Codec Input Maker
\* called without a body field
SentCodecWithoutBody ==
    /\ route # Undefined /\ request # Undefined
    /\ CodecInput
    /\ ~HasParam(params, "body")

\* C28: in both modules, a route with a Declarative Codec Input Maker
\* invoked without a body field (or without an argument) sends a request
\* that has no body, and that carries Content-Type: application/json when
\* the header set obtained from the Headers Maker had no Content-Type.
C28_InjectionWithoutBody ==
    SentCodecWithoutBody =>
        /\ request.body = Undefined
        /\ ~BodyMakerRun
        /\ "content-type" \notin DOMAIN AnyObtainedHeaders =>
              /\ "content-type" \in DOMAIN request.headers
              /\ request.headers["content-type"] = "application/json"

\* no argument at all, another header obtained, and the Content-Type sent
C28_Witness ==
    /\ SentCodecWithoutBody
    /\ params = Undefined
    /\ DOMAIN AnyObtainedHeaders = {"x-api"}
    /\ request.headers = [k \in {"x-api", "content-type"} |->
                             IF k = "x-api" THEN "k" ELSE "application/json"]
    /\ request.body = Undefined
    /\ pc = "done"


\* the URL step has run on a route with a Custom Function URL Maker, for a
\* call without a url field (or without an argument)
WithoutUrlField ==
    /\ route # Undefined /\ Called("url")
    /\ ~StaticUrl
    /\ ~HasParam(params, "url")

\* the URL step did not end the run
PastUrlStep == pc # "done" \/ Called("headers")

\* C29 as stated: without a url field the modular tree calls the URL
\* function exactly once, with undefined, and uses its result as the
\* request URL; the legacy module does not call it and passes the function
\* itself on as the request URL; in neither module does the run fail early
\* or use a default URL string.
C29_Original ==
    WithoutUrlField =>
        /\ PastUrlStep
        /\ IF impl = "modular"
           THEN /\ Count("Url/Fn") = 1
                /\ url = Str(UrlFnApply(UrlFunction, Undefined).value)
                /\ request # Undefined => request.url = url
           ELSE /\ ~Called("Url/Fn")
                /\ url = route.url
                /\ request # Undefined => request.url = route.url

\* C29 amended: the modular tree calls the URL function exactly once, with
\* undefined; when the function returns, its result is the request URL, and
\* when it throws on undefined the run ends there with that defect, before
\* any header or body is computed. The legacy module does not call the
\* function and passes it on as the URL: the run reaches request assembly
\* with it, where it either dies or sends a request whose URL is the
\* function. Neither module answers the missing field with a failure of its
\* own or with a default URL string.
C29_Amended ==
    WithoutUrlField =>
        IF impl = "modular"
        THEN /\ Count("Url/Fn") = 1
             /\ LET called == UrlFnApply(UrlFunction, Undefined)
                IN  IF called.exit = "success"
                    THEN /\ PastUrlStep
                         /\ url = Str(called.value)
                         /\ request # Undefined => request.url = url
                    ELSE /\ pc = "done"
                         /\ Steps = <<"url">>
                         /\ url = Undefined /\ request = Undefined
                         /\ outcome = [exit |-> called.exit, value |-> called.value]
        ELSE /\ ~Called("Url/Fn")
             /\ PastUrlStep
             /\ url = route.url
             /\ request # Undefined => request.url = route.url
             /\ (Called("execute") /\ request = Undefined) =>
                   outcome = [exit |-> "die", value |-> [kind |-> "TypeError"]]

\* the modular tree, no argument: the function's result went out as the URL
C29_Witness ==
    /\ WithoutUrlField /\ impl = "modular"
    /\ params = Undefined
    /\ Count("Url/Fn") = 1
    /\ request # Undefined /\ request.url = Str(<<"/", "l">>)
    /\ pc = "done"


\* the run has ended with its one outcome
Ended == pc = "done" /\ outcome # Undefined /\ outcome.exit \in {"success", "failure", "die"}

\* C30: every invocation that is run reaches an end with one outcome,
\* success or failure, given that every maker function, body read and
\* transport call it waits for comes back: no step of the engine repeats or
\* waits, and once the run has ended its outcome stays as it is.
C30_Terminates ==
    /\ (pc = "called") ~> Ended
    /\ [][pc = "done" => (pc' = "done" /\ outcome' = outcome)]_vars

\* a run that went through every step and ended in success
C30_Witness ==
    /\ Ended /\ outcome.exit = "success"
    /\ Steps = StepOrder
    /\ Truthy(params) /\ request # Undefined

=============================================================================
